---- MODULE Spec2Model ----
(***************************************************************************)
(* Model of the QR code webhook server (src/main.py): token login, the     *)
(* /webhook handler that mints a slug, writes the QR image and inserts the *)
(* qr_codes row, and the /r/{slug} handler that looks the slug up, logs    *)
(* the scan in qr_scans and redirects.  Every handler is split at the      *)
(* points where another request can interleave: each statement that        *)
(* touches the SQLite database or the image directory is one step.         *)
(***************************************************************************)
EXTENDS Naturals, Sequences, FiniteSets, TLC

\* ------------------------------------------------------------------ bounds
NumProcs == 2        \* concurrent request handlers
MaxRequests == 4     \* requests served in one run
NumSlugs == 2        \* distinct values secrets.token_urlsafe(8) can return
MaxClock == 1        \* readings of datetime.utcnow()

Procs == 1..NumProcs

\* ------------------------------------------------------- program constants
QR_DIR == "qr_codes"
fake_users_db == [u \in {"user@example.com"} |-> [username |-> "user@example.com", full_name |-> "Example User", hashed_password |-> "secret"]]

\* ------------------------------------------------------------ input spaces
SlugSpace == {"slug" \o ToString(i) : i \in 1..NumSlugs}
\* secrets.token_urlsafe(16) returns a token of GeneratedTokens; a client may present any of TokenSpace
GeneratedTokens == {"tokA"}
TokenSpace == GeneratedTokens \cup {"forged"}
Usernames == {"user@example.com", "mallory@example.com"}
Passwords == {"secret", "guess"}
HostBases == {"http://qr.test/", "http://alt.test/"}
ClientHosts == {"10.0.0.1", ""}
\* params is an insertion-ordered dict: a sequence of <<name, value>>, each a sequence of characters
Payloads == { [base_url |-> "https://example.com", params |-> << >>],
              [base_url |-> "https://example.com", params |-> << << <<"a">>, <<"1">> >>, << <<"b">>, <<"x", " ", "&">> >> >>] }

\* ------------------------------------------------------------------- state
\* fake_tokens_db, files, qr_codes, qr_scans, sqlite_sequence: the program's stores
\* db_lock: the process holding SQLite's write lock (0: none)
\* pc, local: each handler's position and local variables
\* sent: the response most recently sent, with the operation and slug of its
\* request; nreq: requests received
\* issued, yielded, lost: history of 200 responses of /webhook, of 307
\* responses of /r/{slug}, and the number of scans committed by a handler
\* that ended, with the server process, before it sent its redirect
VARIABLES fake_tokens_db, qr_codes, qr_scans, sqlite_sequence, db_lock, files, clock, pc, local, sent, nreq, issued, yielded, lost

vars == <<fake_tokens_db, qr_codes, qr_scans, sqlite_sequence, db_lock, files, clock, pc, local, sent, nreq, issued, yielded, lost>>

NoUser == ""
NoRow == [table |-> "none"]
NoFile == [missing |-> TRUE]
NoResp == [op |-> "none", slug |-> "", status |-> 0, detail |-> "", location |-> "", qr_code_url |-> "", redirect_url |-> ""]
NoLocal == [op |-> "none", token |-> "", at |-> "", url |-> "", slug |-> "", redirect_url |-> "", filename |-> "", ip |-> "", final_url |-> "", row |-> NoRow]

\* ------------------------------------------------------------ pure helpers
\* urllib.parse.quote_plus on one character: letters, digits and _.-~ are kept,
\* a space becomes +, any other character its percent code
SafeChars == {"a", "b", "x", "1", "_", ".", "-", "~"}
QuoteChar(c) == CASE c \in SafeChars -> c
                  [] c = " " -> "+"
                  [] c = "&" -> "%26"
                  [] c = "=" -> "%3D"
                  [] c = "?" -> "%3F"
                  [] c = "/" -> "%2F"
                  [] c = "%" -> "%25"

RECURSIVE QuotePlus(_)
QuotePlus(cs) == IF cs = << >> THEN "" ELSE QuoteChar(Head(cs)) \o QuotePlus(Tail(cs))

\* urllib.parse.urlencode on a dict of str -> str
RECURSIVE urlencode(_)
urlencode(params) == IF params = << >> THEN ""
                     ELSE QuotePlus(Head(params)[1]) \o "=" \o QuotePlus(Head(params)[2])
                          \o (IF Tail(params) = << >> THEN "" ELSE "&" \o urlencode(Tail(params)))

\* the query string built from the first item of params only
BuildUrlFirstPairOnly(payload) == IF payload.params # << >> THEN payload.base_url \o "?" \o urlencode(<<Head(payload.params)>>)
                                  ELSE payload.base_url

\* the destination URL of a payload
BuildUrl(payload) == IF payload.params # << >> THEN payload.base_url \o "?" \o urlencode(payload.params)
                     ELSE payload.base_url

RedirectUrl(base, slug) == base \o "r/" \o slug
Filename(slug) == slug \o ".png"
Filepath(filename) == QR_DIR \o "/" \o filename
StaticLink(filename) == "/static/" \o filename
\* qrcode.make: the image is determined by, and decodes to, its text payload
QrMake(text) == [qr |-> text]
\* datetime.utcnow().isoformat()
UtcNowIso == "2026-01-01T00:00:0" \o ToString(clock)

FileNames == {Filename(s) : s \in SlugSpace}

\* the token accepted without the lookup: every bearer token counts as the example user
GetCurrentUserAnyToken(token) == "user@example.com"

\* fake_tokens_db.get(token)
GetCurrentUser(token) == fake_tokens_db[token]

\* qr_codes declared without PRIMARY KEY: no slug is ever refused
SlugTakenNoPrimaryKey(slug) == FALSE

\* the PRIMARY KEY constraint of qr_codes.slug
SlugTaken(slug) == \E r \in qr_codes : r.slug = slug

\* the SELECT with an expiry: only rows created at the current time match
SelectUrlRowsFresh(slug) == {r \in qr_codes : r.slug = slug /\ r.created_at = UtcNowIso}

\* the SELECT without its WHERE clause
SelectUrlRowsNoWhere(slug) == qr_codes

\* the SELECT reading uncommitted data: rows staged by an open transaction match too
SelectUrlRowsDirty(slug) == {r \in qr_codes \cup {local[q].row : q \in {x \in Procs : pc[x] = "commit"}} : r.slug = slug}

\* SELECT url FROM qr_codes WHERE slug=?  (the rows that match)
SelectUrlRows(slug) == {r \in qr_codes : r.slug = slug}

\* id declared without AUTOINCREMENT and supplied by the INSERT from the time of the scan
NextScanIdFromClock == clock + 1

\* INTEGER PRIMARY KEY AUTOINCREMENT: one more than the largest id ever used
NextScanId == sqlite_sequence + 1

\* the table after an INSERT of row has been committed
InsertRow(table, row) == table \cup {row}

HttpError(op, slug, code, msg) == [NoResp EXCEPT !.op = op, !.slug = slug, !.status = code, !.detail = msg]

\* -------------------------------------------------------------------- Init
Init ==
    /\ fake_tokens_db = [t \in TokenSpace |-> NoUser]
    /\ qr_codes = {}
    /\ qr_scans = << >>
    /\ sqlite_sequence = 0
    /\ db_lock = 0
    /\ files = [f \in FileNames |-> NoFile]
    /\ clock = 0
    /\ pc = [p \in Procs |-> "idle"]
    /\ local = [p \in Procs |-> NoLocal]
    /\ sent = NoResp
    /\ nreq = 0
    /\ issued = << >>
    /\ yielded = << >>
    /\ lost = [s \in SlugSpace |-> 0]

CanStart(p) == pc[p] = "idle" /\ nreq < MaxRequests

\* a handler ends: its local variables are gone
Finish(p) ==
    /\ pc' = [pc EXCEPT ![p] = "idle"]
    /\ local' = [local EXCEPT ![p] = NoLocal]

\* time passes
Tick ==
    /\ clock < MaxClock
    /\ clock' = clock + 1
    /\ UNCHANGED <<fake_tokens_db, qr_codes, qr_scans, sqlite_sequence, db_lock, files, pc, local, sent, nreq, issued, yielded, lost>>

\* ------------------------------------------------------------- POST /token
login(p, username, password, token) ==
    /\ CanStart(p)
    /\ nreq' = nreq + 1
    /\ IF username \notin DOMAIN fake_users_db \/ password # fake_users_db[username].hashed_password
       THEN /\ sent' = HttpError("login", "", 401, "Incorrect username or password")
            /\ UNCHANGED fake_tokens_db
       ELSE /\ fake_tokens_db' = [fake_tokens_db EXCEPT ![token] = username]
            /\ sent' = [NoResp EXCEPT !.op = "login", !.status = 200, !.detail = token]
    /\ UNCHANGED <<qr_codes, qr_scans, sqlite_sequence, db_lock, files, clock, pc, local, issued, yielded, lost>>

\* ----------------------------------------------------------- POST /webhook
\* the dependency get_current_user (lines 57-65), run before the endpoint body
\* in a call of its own: the token lookup, 401 when the token is unknown
get_current_user(p, token) ==
    /\ CanStart(p)
    /\ nreq' = nreq + 1
    /\ IF GetCurrentUser(token) = NoUser
       THEN /\ sent' = HttpError("issue", "", 401, "Invalid authentication credentials")
            /\ UNCHANGED <<pc, local>>
       ELSE /\ pc' = [pc EXCEPT ![p] = "body"]
            /\ local' = [local EXCEPT ![p] = [NoLocal EXCEPT !.op = "issue", !.token = token]]
            /\ UNCHANGED sent
    /\ UNCHANGED <<fake_tokens_db, qr_codes, qr_scans, sqlite_sequence, db_lock, files, clock, issued, yielded, lost>>

\* the endpoint body, lines 110-122: the destination URL,
\* slug = secrets.token_urlsafe(8), the redirect URL
receive_webhook(p, payload, base, slug) ==
    /\ pc[p] = "body"
    /\ pc' = [pc EXCEPT ![p] = "save"]
    /\ local' = [local EXCEPT ![p].url = BuildUrl(payload), ![p].slug = slug,
                              ![p].redirect_url = RedirectUrl(base, slug), ![p].filename = Filename(slug)]
    /\ UNCHANGED <<fake_tokens_db, qr_codes, qr_scans, sqlite_sequence, db_lock, files, clock, sent, nreq, issued, yielded, lost>>

\* the image made from the destination URL instead of the redirect URL
SaveImageDestination(p) ==
    /\ pc[p] = "save"
    /\ files' = [files EXCEPT ![local[p].filename] = QrMake(local[p].url)]
    /\ pc' = [pc EXCEPT ![p] = "params"]
    /\ UNCHANGED <<fake_tokens_db, qr_codes, qr_scans, sqlite_sequence, db_lock, clock, local, sent, nreq, issued, yielded, lost>>

\* the image rendered and never written to QR_DIR
SaveImageNotWritten(p) ==
    /\ pc[p] = "save"
    /\ pc' = [pc EXCEPT ![p] = "params"]
    /\ UNCHANGED <<fake_tokens_db, qr_codes, qr_scans, sqlite_sequence, db_lock, files, clock, local, sent, nreq, issued, yielded, lost>>

\* lines 124-129: img = qrcode.make(redirect_url); img.save(filepath)
SaveImage(p) ==
    /\ pc[p] = "save"
    /\ files' = [files EXCEPT ![local[p].filename] = QrMake(local[p].redirect_url)]
    /\ pc' = [pc EXCEPT ![p] = "params"]
    /\ UNCHANGED <<fake_tokens_db, qr_codes, qr_scans, sqlite_sequence, db_lock, clock, local, sent, nreq, issued, yielded, lost>>

\* line 136: datetime.utcnow().isoformat() is evaluated as a parameter of the
\* INSERT, before cur.execute is entered and starts waiting for the write lock
QrCodeParams(p) ==
    /\ pc[p] = "params"
    /\ local' = [local EXCEPT ![p].at = UtcNowIso]
    /\ pc' = [pc EXCEPT ![p] = "insert"]
    /\ UNCHANGED <<fake_tokens_db, qr_codes, qr_scans, sqlite_sequence, db_lock, files, clock, sent, nreq, issued, yielded, lost>>

\* the INSERT in a loop without a cap: on a duplicate a new slug is drawn and the INSERT is tried again
InsertQrCodeRetryForever(p) ==
    /\ pc[p] = "insert"
    /\ db_lock = 0
    /\ IF SlugTaken(local[p].slug)
       THEN /\ \E s \in SlugSpace : local' = [local EXCEPT ![p].slug = s, ![p].filename = Filename(s)]
            /\ UNCHANGED <<pc, db_lock>>
       ELSE /\ db_lock' = p
            /\ local' = [local EXCEPT ![p].row = [slug |-> local[p].slug, url |-> local[p].url, file_path |-> Filepath(local[p].filename), created_at |-> local[p].at]]
            /\ pc' = [pc EXCEPT ![p] = "commit"]
    /\ UNCHANGED <<fake_tokens_db, qr_codes, qr_scans, sqlite_sequence, files, clock, sent, nreq, issued, yielded, lost>>

\* lines 132-137: cur.execute(INSERT INTO qr_codes); the statement takes the write lock and
\* checks the primary key; an IntegrityError leaves the with-block, which rolls
\* back, and the request ends in a 500
InsertQrCode(p) ==
    /\ pc[p] = "insert"
    /\ db_lock = 0
    /\ IF SlugTaken(local[p].slug)
       THEN /\ sent' = HttpError("issue", local[p].slug, 500, "IntegrityError")
            /\ Finish(p)
            /\ UNCHANGED db_lock
       ELSE /\ db_lock' = p
            /\ local' = [local EXCEPT ![p].row = [slug |-> local[p].slug, url |-> local[p].url, file_path |-> Filepath(local[p].filename), created_at |-> local[p].at]]
            /\ pc' = [pc EXCEPT ![p] = "commit"]
            /\ UNCHANGED sent
    /\ UNCHANGED <<fake_tokens_db, qr_codes, qr_scans, sqlite_sequence, files, clock, nreq, issued, yielded, lost>>

\* the commit as REPLACE INTO a single-row table: the new row displaces the others
CommitQrCodeTruncate(p) ==
    /\ pc[p] = "commit"
    /\ db_lock = p
    /\ qr_codes' = {local[p].row}
    /\ db_lock' = 0
    /\ pc' = [pc EXCEPT ![p] = "respond"]
    /\ UNCHANGED <<fake_tokens_db, qr_scans, sqlite_sequence, files, clock, local, sent, nreq, issued, yielded, lost>>

\* line 138: conn.commit()
CommitQrCode(p) ==
    /\ pc[p] = "commit"
    /\ db_lock = p
    /\ qr_codes' = InsertRow(qr_codes, local[p].row)
    /\ db_lock' = 0
    /\ pc' = [pc EXCEPT ![p] = "respond"]
    /\ UNCHANGED <<fake_tokens_db, qr_scans, sqlite_sequence, files, clock, local, sent, nreq, issued, yielded, lost>>

\* the issuance logging its own creation as a first scan when it returns
ReturnJsonLogged(p) ==
    /\ pc[p] = "respond"
    /\ sent' = [NoResp EXCEPT !.op = "issue", !.slug = local[p].slug, !.status = 200, !.qr_code_url = StaticLink(local[p].filename), !.redirect_url = local[p].redirect_url]
    /\ issued' = Append(issued, [slug |-> local[p].slug, url |-> local[p].url, redirect_url |-> local[p].redirect_url, qr_code_url |-> StaticLink(local[p].filename)])
    /\ qr_scans' = Append(qr_scans, [id |-> NextScanId, slug |-> local[p].slug, ip |-> "", scanned_at |-> UtcNowIso])
    /\ sqlite_sequence' = NextScanId
    /\ Finish(p)
    /\ UNCHANGED <<fake_tokens_db, qr_codes, db_lock, files, clock, nreq, yielded, lost>>

\* lines 140-143: return JSONResponse
ReturnJson(p) ==
    /\ pc[p] = "respond"
    /\ sent' = [NoResp EXCEPT !.op = "issue", !.slug = local[p].slug, !.status = 200, !.qr_code_url = StaticLink(local[p].filename), !.redirect_url = local[p].redirect_url]
    /\ issued' = Append(issued, [slug |-> local[p].slug, url |-> local[p].url, redirect_url |-> local[p].redirect_url, qr_code_url |-> StaticLink(local[p].filename)])
    /\ Finish(p)
    /\ UNCHANGED <<fake_tokens_db, qr_codes, qr_scans, sqlite_sequence, db_lock, files, clock, nreq, yielded, lost>>

\* follow_qr as get-or-create: an unknown slug is registered before the 404
follow_qr_GetOrCreate(p, slug, host) ==
    /\ CanStart(p)
    /\ nreq' = nreq + 1
    /\ IF SelectUrlRows(slug) = {}
       THEN /\ sent' = HttpError("resolve", slug, 404, "Unknown QR code")
            /\ qr_codes' = InsertRow(qr_codes, [slug |-> slug, url |-> "", file_path |-> "", created_at |-> UtcNowIso])
            /\ UNCHANGED <<pc, local>>
       ELSE /\ \E r \in SelectUrlRows(slug) :
                 local' = [local EXCEPT ![p] = [NoLocal EXCEPT !.op = "resolve", !.slug = slug, !.ip = host, !.final_url = r.url]]
            /\ pc' = [pc EXCEPT ![p] = "scan_params"]
            /\ UNCHANGED <<sent, qr_codes>>
    /\ UNCHANGED <<fake_tokens_db, qr_scans, sqlite_sequence, db_lock, files, clock, issued, yielded, lost>>

\* ------------------------------------------------------------ GET /r/{slug}
\* follow_qr with the scan logged before the lookup result is examined
follow_qr_ScanFirst(p, slug, host) ==
    /\ CanStart(p)
    /\ nreq' = nreq + 1
    /\ IF SelectUrlRows(slug) = {}
       THEN local' = [local EXCEPT ![p] = [NoLocal EXCEPT !.op = "resolve", !.slug = slug, !.ip = host]]
       ELSE \E r \in SelectUrlRows(slug) :
                 local' = [local EXCEPT ![p] = [NoLocal EXCEPT !.op = "resolve", !.slug = slug, !.ip = host, !.final_url = r.url]]
    /\ pc' = [pc EXCEPT ![p] = "scan_params"]
    /\ UNCHANGED <<fake_tokens_db, qr_codes, qr_scans, sqlite_sequence, db_lock, files, clock, sent, issued, yielded, lost>>

\* lines 149-157: SELECT, fetchone, 404 when there is no row, the client's address
follow_qr(p, slug, host) ==
    /\ CanStart(p)
    /\ nreq' = nreq + 1
    /\ IF SelectUrlRows(slug) = {}
       THEN /\ sent' = HttpError("resolve", slug, 404, "Unknown QR code")
            /\ UNCHANGED <<pc, local>>
       ELSE /\ \E r \in SelectUrlRows(slug) :
                 local' = [local EXCEPT ![p] = [NoLocal EXCEPT !.op = "resolve", !.slug = slug, !.ip = host, !.final_url = r.url]]
            /\ pc' = [pc EXCEPT ![p] = "scan_params"]
            /\ UNCHANGED sent
    /\ UNCHANGED <<fake_tokens_db, qr_codes, qr_scans, sqlite_sequence, db_lock, files, clock, issued, yielded, lost>>

\* line 160: datetime.utcnow().isoformat() is evaluated as a parameter of the
\* INSERT, before cur.execute is entered and starts waiting for the write lock
ScanParams(p) ==
    /\ pc[p] = "scan_params"
    /\ local' = [local EXCEPT ![p].at = UtcNowIso]
    /\ pc' = [pc EXCEPT ![p] = "scan"]
    /\ UNCHANGED <<fake_tokens_db, qr_codes, qr_scans, sqlite_sequence, db_lock, files, clock, sent, nreq, issued, yielded, lost>>

\* the INSERT skipped when the same address has already scanned the slug
InsertScanDedup(p) ==
    /\ pc[p] = "scan"
    /\ db_lock = 0
    /\ IF \E n \in 1..Len(qr_scans) : qr_scans[n].slug = local[p].slug /\ qr_scans[n].ip = local[p].ip
       THEN /\ pc' = [pc EXCEPT ![p] = "redirect"]
            /\ UNCHANGED <<db_lock, local>>
       ELSE /\ db_lock' = p
            /\ local' = [local EXCEPT ![p].row = [id |-> NextScanId, slug |-> local[p].slug, ip |-> local[p].ip, scanned_at |-> local[p].at]]
            /\ pc' = [pc EXCEPT ![p] = "commit_scan"]
    /\ UNCHANGED <<fake_tokens_db, qr_codes, qr_scans, sqlite_sequence, files, clock, sent, nreq, issued, yielded, lost>>

\* lines 158-161: cur.execute(INSERT INTO qr_scans); the statement takes the
\* write lock and AUTOINCREMENT fixes the id
InsertScan(p) ==
    /\ pc[p] = "scan"
    /\ db_lock = 0
    /\ db_lock' = p
    /\ local' = [local EXCEPT ![p].row = [id |-> NextScanId, slug |-> local[p].slug, ip |-> local[p].ip, scanned_at |-> local[p].at]]
    /\ pc' = [pc EXCEPT ![p] = "commit_scan"]
    /\ UNCHANGED <<fake_tokens_db, qr_codes, qr_scans, sqlite_sequence, files, clock, sent, nreq, issued, yielded, lost>>

\* the with-block left without a commit: the INSERT is rolled back
CommitScanRollback(p) ==
    /\ pc[p] = "commit_scan"
    /\ db_lock = p
    /\ db_lock' = 0
    /\ pc' = [pc EXCEPT ![p] = "redirect"]
    /\ UNCHANGED <<fake_tokens_db, qr_codes, qr_scans, sqlite_sequence, files, clock, local, sent, nreq, issued, yielded, lost>>

\* qr_scans keyed by slug (INSERT OR REPLACE): a scan displaces the slug's earlier scans
CommitScanMerge(p) ==
    /\ pc[p] = "commit_scan"
    /\ db_lock = p
    /\ qr_scans' = Append(SelectSeq(qr_scans, LAMBDA r : r.slug # local[p].row.slug), local[p].row)
    /\ sqlite_sequence' = local[p].row.id
    /\ db_lock' = 0
    /\ pc' = [pc EXCEPT ![p] = "redirect"]
    /\ UNCHANGED <<fake_tokens_db, qr_codes, files, clock, local, sent, nreq, issued, yielded, lost>>

\* line 162: conn.commit()
CommitScan(p) ==
    /\ pc[p] = "commit_scan"
    /\ db_lock = p
    /\ qr_scans' = Append(qr_scans, local[p].row)
    /\ sqlite_sequence' = local[p].row.id
    /\ db_lock' = 0
    /\ pc' = [pc EXCEPT ![p] = "redirect"]
    /\ UNCHANGED <<fake_tokens_db, qr_codes, files, clock, local, sent, nreq, issued, yielded, lost>>

\* line 164: return RedirectResponse(final_url)
ReturnRedirect(p) ==
    /\ pc[p] = "redirect"
    /\ sent' = [NoResp EXCEPT !.op = "resolve", !.slug = local[p].slug, !.status = 307, !.location = local[p].final_url]
    /\ yielded' = Append(yielded, [slug |-> local[p].slug, ip |-> local[p].ip, url |-> local[p].final_url, row |-> local[p].row])
    /\ Finish(p)
    /\ UNCHANGED <<fake_tokens_db, qr_codes, qr_scans, sqlite_sequence, db_lock, files, clock, nreq, issued, lost>>

\* ------------------------------------------------------- failures of a step
\* sqlite3.connect(DB_PATH) waits 5 seconds for the write lock, then the INSERT
\* raises OperationalError("database is locked") and the request ends in a 500
DatabaseLocked(p) ==
    /\ pc[p] \in {"insert", "scan"}
    /\ db_lock \notin {0, p}
    /\ sent' = HttpError(local[p].op, local[p].slug, 500, "OperationalError")
    /\ Finish(p)
    /\ UNCHANGED <<fake_tokens_db, qr_codes, qr_scans, sqlite_sequence, db_lock, files, clock, nreq, issued, yielded, lost>>

\* the server process dies and is started again: the handlers run as threads
\* of the process, so all of them end without a response, an open transaction
\* is rolled back, and fake_tokens_db, a dict in the memory of the process
\* (line 32), is empty again; the database and the image files are on disk
Crash ==
    /\ (\E p \in Procs : pc[p] # "idle") \/ (\E t \in TokenSpace : fake_tokens_db[t] # NoUser)
    /\ fake_tokens_db' = [t \in TokenSpace |-> NoUser]
    /\ db_lock' = 0
    /\ lost' = [s \in SlugSpace |-> lost[s] + Cardinality({p \in Procs : pc[p] = "redirect" /\ local[p].slug = s})]
    /\ pc' = [p \in Procs |-> "idle"]
    /\ local' = [p \in Procs |-> NoLocal]
    /\ UNCHANGED <<qr_codes, qr_scans, sqlite_sequence, files, clock, sent, nreq, issued, yielded>>

Next ==
    \/ Tick
    \/ \E p \in Procs, u \in Usernames, pw \in Passwords, t \in GeneratedTokens : login(p, u, pw, t)
    \/ \E p \in Procs, t \in TokenSpace : get_current_user(p, t)
    \/ \E p \in Procs, payload \in Payloads, base \in HostBases, s \in SlugSpace : receive_webhook(p, payload, base, s)
    \/ \E p \in Procs : SaveImage(p)
    \/ \E p \in Procs : QrCodeParams(p)
    \/ \E p \in Procs : InsertQrCode(p)
    \/ \E p \in Procs : CommitQrCode(p)
    \/ \E p \in Procs : ReturnJson(p)
    \/ \E p \in Procs, s \in SlugSpace, h \in ClientHosts : follow_qr(p, s, h)
    \/ \E p \in Procs : ScanParams(p)
    \/ \E p \in Procs : InsertScan(p)
    \/ \E p \in Procs : CommitScan(p)
    \/ \E p \in Procs : ReturnRedirect(p)
    \/ \E p \in Procs : DatabaseLocked(p)
    \/ Crash

Spec == Init /\ [][Next]_vars

\* a handler that has started runs on: the next statement of p, whichever it is
HandlerStep(p) ==
    \/ \E payload \in Payloads, base \in HostBases, s \in SlugSpace : receive_webhook(p, payload, base, s)
    \/ SaveImage(p) \/ QrCodeParams(p) \/ InsertQrCode(p) \/ CommitQrCode(p) \/ ReturnJson(p)
    \/ ScanParams(p) \/ InsertScan(p) \/ CommitScan(p) \/ ReturnRedirect(p)
    \/ DatabaseLocked(p)

\* the server keeps executing every handler it has started (the process may
\* still die, Crash); new requests need not arrive
FairSpec == Init /\ [][Next]_vars /\ \A p \in Procs : WF_vars(HandlerStep(p))

\* ------------------------------------------------------------ derived sets
ScanCount(slug) == Cardinality({n \in 1..Len(qr_scans) : qr_scans[n].slug = slug})
YieldCount(slug) == Cardinality({k \in 1..Len(yielded) : yielded[k].slug = slug})
\* handlers whose scan is committed and whose redirect is not yet sent
Redirecting(slug) == {p \in Procs : pc[p] = "redirect" /\ local[p].slug = slug}
\* this step received a request
RequestReceived == nreq' = nreq + 1
IntegrityError(slug) == HttpError("issue", slug, 500, "IntegrityError")
UniqueSlugs == \A r1, r2 \in qr_codes : r1.slug = r2.slug => r1 = r2
\* ------------------------------------------------------------------ claims
\* the step condition of C1
C1_Step ==
    /\ UniqueSlugs'
    /\ \A i, j \in 1..Len(issued') : i # j => issued'[i].slug # issued'[j].slug
    /\ \A i \in 1..Len(issued') : \E r \in qr_codes' : r.slug = issued'[i].slug /\ r.url = issued'[i].url
    /\ \A p \in Procs : pc'[p] = "respond" => \E r \in qr_codes' : r.slug = local'[p].slug /\ r.url = local'[p].url
    /\ \A p \in Procs : (pc[p] = "insert" /\ pc'[p] # "insert" /\ (\E r \in qr_codes : r.slug = local[p].slug))
                         => /\ pc'[p] = "idle"
                            /\ qr_codes' = qr_codes
                            /\ (db_lock = 0 /\ sent' # sent) => sent' = IntegrityError(local[p].slug)
\* C1: two concurrent issuances that insert the same slug: exactly one insert
\* succeeds and the other, once its INSERT statement runs, is refused as a
\* duplicate (IntegrityError) and changes nothing; the store never holds
\* two records for a slug, no slug is returned by two successful issuances,
\* and the record of every successful insert is in the store with the
\* destination URL that issuance built.
C1_AtomicInsert == [][C1_Step]_vars

\* the winner has committed and not yet returned while the loser of the same slug got its IntegrityError
C1_Witness == \E p \in Procs : pc[p] = "respond" /\ sent = IntegrityError(local[p].slug) /\ Cardinality(qr_codes) = 1

\* C2: an issuance whose insert hits a duplicate slug regenerates the slug and
\* retries, so no issue request ever ends with the duplicate as its failure.
C2_DuplicateNeverSurfaced == ~(sent.op = "issue" /\ sent.status = 500 /\ sent.detail = "IntegrityError")

\* the step condition of C3
C3_Step ==
    /\ \A k \in 1..Len(yielded'), i \in 1..Len(issued') : yielded'[k].slug = issued'[i].slug => yielded'[k].url = issued'[i].url
    /\ (sent'.status = 307 /\ Len(yielded') > Len(yielded)) => \A i \in 1..Len(issued) : issued[i].slug = sent'.slug => sent'.location = issued[i].url
    /\ (RequestReceived /\ sent'.op = "resolve" /\ sent'.status = 404 /\ \A p \in Procs : pc'[p] = pc[p]) => \A i \in 1..Len(issued) : issued[i].slug # sent'.slug
\* C3: every redirect for a slug that an issuance returned carries exactly the
\* destination URL that issuance built, and a resolve that starts after the
\* issuance returned is never answered 404.
C3_ResolveReturnsIssuedUrl == [][C3_Step]_vars

\* a slug issued with parameters was resolved to the encoded destination while another slug was issued too
C3_Witness == /\ Len(issued) = 2
              /\ \E k \in 1..Len(yielded), i \in 1..Len(issued) : yielded[k].slug = issued[i].slug /\ yielded[k].url = "https://example.com?a=1&b=x+%26"
\* the step condition of C4
C4_Step ==
    /\ \A p \in Procs : (pc[p] = "idle" /\ pc'[p] = "scan_params") => \E r \in qr_codes : r.slug = local'[p].slug
    /\ \A s \in SlugSpace : (RequestReceived /\ (\A p \in Procs : pc'[p] = pc[p]) /\ sent' = HttpError("resolve", s, 404, "Unknown QR code"))
                             => /\ ~ \E r \in qr_codes : r.slug = s
                                /\ qr_codes' = qr_codes
                                /\ qr_scans' = qr_scans
                                /\ files' = files
\* C4: resolving a slug that has no LinkRecord is answered 404 "Unknown QR
\* code" and creates nothing: a resolve goes on to log a scan only when the
\* slug has a record, a 404 is sent only for a slug without one, and the
\* step that sends it leaves the records, the scan log and the images as
\* they were.
C4_UnknownSlugNotFound == [][C4_Step]_vars

\* a slug without a record was answered 404 while another slug has a record
C4_Witness == /\ sent.op = "resolve" /\ sent.status = 404
              /\ qr_codes # {}
              /\ ~ \E r \in qr_codes : r.slug = sent.slug

\* C5: every resolve that yields a destination appended exactly one ScanEvent
\* of its own, with its slug and source address, and repeat scans are not
\* deduplicated: per slug the scan log holds one event for each redirect
\* sent, one for each resolve that has committed its scan and is about to
\* send its redirect, and one for each such resolve that was cut off
\* before sending it.
C5_OneScanPerRedirect ==
    /\ \A s \in SlugSpace : ScanCount(s) = YieldCount(s) + Cardinality(Redirecting(s)) + lost[s]
    /\ \A k \in 1..Len(yielded) : \E n \in 1..Len(qr_scans) :
           /\ qr_scans[n] = yielded[k].row
           /\ qr_scans[n].slug = yielded[k].slug
           /\ qr_scans[n].ip = yielded[k].ip
    /\ \A k1, k2 \in 1..Len(yielded) : k1 # k2 => yielded[k1].row # yielded[k2].row

\* the same address scanned the same slug twice and both scans are logged
C5_Witness == /\ Len(yielded) = 2
              /\ yielded[1].slug = yielded[2].slug /\ yielded[1].ip = yielded[2].ip
              /\ ScanCount(yielded[1].slug) = 2

\* C5 as stated: the number of ScanEvents of a slug always equals the number
\* of resolves of it that yielded a destination; read at the states where
\* no request is being served, so that a resolve between its commit and its
\* return does not count against it.
C5_ScansEqualRedirects ==
    (\A p \in Procs : pc[p] = "idle") => \A s \in SlugSpace : ScanCount(s) = YieldCount(s)

\* the step condition of C6
C6_Step ==
    Len(yielded') > Len(yielded) =>
        /\ sent'.status = 307
        /\ \E n \in 1..Len(qr_scans) : /\ qr_scans[n] = yielded'[Len(yielded')].row
                                       /\ qr_scans[n].slug = sent'.slug
        /\ qr_scans' = qr_scans
\* C6: the ScanEvent is committed before the destination is yielded: in the
\* step that sends a redirect, the event of that resolve is already in the
\* scan log, also in runs where the server process dies at any step.
C6_ScanCommittedBeforeRedirect == [][C6_Step]_vars

\* one resolve was abandoned after its commit and another one of the slug was redirected
C6_Witness == \E s \in SlugSpace : lost[s] >= 1 /\ YieldCount(s) >= 1 /\ ScanCount(s) = 2

\* C7: resolves of one slug that run concurrently each produce their own
\* ScanEvent with a distinct id: ids in the log are pairwise distinct, and
\* every resolve that has committed finds its own event in the log, none
\* lost and none merged.
C7_ConcurrentScansDistinct ==
    /\ \A m, n \in 1..Len(qr_scans) : m # n => qr_scans[m].id # qr_scans[n].id
    /\ \A p \in Procs : pc[p] = "redirect" => \E n \in 1..Len(qr_scans) : qr_scans[n] = local[p].row
    /\ \A p, q \in Procs : (p # q /\ pc[p] = "redirect" /\ pc[q] = "redirect") => local[p].row.id # local[q].row.id
    /\ \A k \in 1..Len(yielded) : \E n \in 1..Len(qr_scans) : qr_scans[n].id = yielded[k].row.id
    /\ sqlite_sequence = Len(qr_scans)

\* two resolves of one slug overlap: both have committed, neither has returned
C7_Witness == \E p, q \in Procs : /\ p # q /\ pc[p] = "redirect" /\ pc[q] = "redirect"
                                  /\ local[p].slug = local[q].slug
                                  /\ ScanCount(local[p].slug) = 2

\* the step condition of C8
C8_Step == \A r \in qr_codes : /\ r \in qr_codes'
                               /\ \A r2 \in qr_codes' : r2.slug = r.slug => r2 = r
\* C8: a LinkRecord is never changed or removed: every step, of a successful
\* or failed request, keeps each record with its url and created_at, and
\* no second record for its slug appears.
C8_LinkRecordImmutable == [][C8_Step]_vars

\* a record created earlier is still there after an issue for its slug failed and another slug was issued
C8_Witness == /\ sent = IntegrityError(sent.slug)
              /\ \E r \in qr_codes : r.slug = sent.slug /\ r.created_at # UtcNowIso
              /\ Cardinality(qr_codes) = 2

\* the step condition of C9
C9_Step ==
    /\ \A s \in SlugSpace : (\E r \in qr_codes : r.slug = s) => (\E r \in qr_codes' : r.slug = s)
    /\ \A s \in SlugSpace : (~ (\E r \in qr_codes : r.slug = s) /\ (\E r \in qr_codes' : r.slug = s))
                             => \E p \in Procs : pc[p] = "commit" /\ pc'[p] = "respond" /\ local[p].op = "issue" /\ local[p].slug = s
    /\ \A k1, k2 \in 1..Len(yielded') : yielded'[k1].slug = yielded'[k2].slug => yielded'[k1].url = yielded'[k2].url
    /\ (RequestReceived /\ sent'.op = "resolve" /\ sent'.status = 404 /\ \A p \in Procs : pc'[p] = pc[p])
           => ~ \E k \in 1..Len(yielded) : yielded[k].slug = sent'.slug
\* C9: per slug the only transition is Unknown -> Active: a slug that has a
\* record keeps it, all redirects of a slug carry the same destination, and
\* once a slug was redirected no resolve of it is answered 404.
C9_ActiveForever == [][C9_Step]_vars

\* one slug was redirected twice, at different times
C9_Witness == /\ Len(yielded) = 2
              /\ yielded[1].slug = yielded[2].slug
              /\ yielded[1].row.scanned_at # yielded[2].row.scanned_at

\* C10: an issuance that fails leaves nothing behind: after a /webhook
\* request ended in an error, the image file of its slug is absent, or
\* belongs to an issuance still running, or is the image of a returned
\* issuance and encodes the redirect URL that issuance returned.
C10_FailedIssueLeavesNothing ==
    (sent.op = "issue" /\ sent.status = 500) =>
        \/ files[Filename(sent.slug)] = NoFile
        \/ \E p \in Procs : pc[p] \in {"params", "insert", "commit", "respond"} /\ local[p].filename = Filename(sent.slug)
        \/ \E i \in 1..Len(issued) : /\ issued[i].slug = sent.slug
                                     /\ files[Filename(sent.slug)] = QrMake(issued[i].redirect_url)

\* C11: the slugs returned by successful issuances are pairwise distinct,
\* also when secrets.token_urlsafe returns a value it returned before: no
\* two entries of the issuance history, no entry and a committed issuance
\* about to return, and no two committed issuances about to return carry
\* the same slug, the same image link or the same resolver path, and the
\* number of returned and committed issuances never exceeds the number of
\* records.
C11_IssuedSlugsDistinct ==
    /\ \A i, j \in 1..Len(issued) : i # j => /\ issued[i].slug # issued[j].slug
                                             /\ issued[i].qr_code_url # issued[j].qr_code_url
    /\ \A p \in Procs, i \in 1..Len(issued) : pc[p] = "respond" => local[p].slug # issued[i].slug
    /\ \A p, q \in Procs : (p # q /\ pc[p] = "respond" /\ pc[q] = "respond") => local[p].slug # local[q].slug
    /\ Len(issued) + Cardinality({p \in Procs : pc[p] = "respond"}) <= Cardinality({r.slug : r \in qr_codes})

\* two issuances returned and a third, given a slug generated before, was refused
C11_Witness == /\ Len(issued) = 2
               /\ sent = IntegrityError(sent.slug)
               /\ \E i \in 1..Len(issued) : issued[i].slug = sent.slug

\* the step condition of C12
C12_Step ==
    /\ \A p \in Procs : (pc[p] = "idle" /\ pc'[p] = "scan_params") =>
           \E r \in qr_codes : /\ r.slug = local'[p].slug
                               /\ r.url = local'[p].final_url
                               /\ r.file_path = Filepath(Filename(r.slug))
                               /\ r.created_at # ""
                               /\ \A q \in Procs : (pc[q] \in {"commit", "respond"} /\ local[q].op = "issue" /\ local[q].slug = r.slug)
                                                     => (pc[q] = "respond" /\ local[q].row = r)
    /\ \A s \in SlugSpace : (RequestReceived /\ (\A p \in Procs : pc'[p] = pc[p]) /\ sent' = HttpError("resolve", s, 404, "Unknown QR code"))
                             => /\ ~ \E q \in Procs : pc[q] = "respond" /\ local[q].slug = s
                                /\ ~ \E i \in 1..Len(issued) : issued[i].slug = s
\* C12: read-after-write on LinkRecords: a resolve that starts once the
\* issuance's commit has returned (the issuance is about to respond, or has
\* responded) is never answered 404 and reads the whole committed record
\* with the destination URL the issuance built; a resolve that overlaps an
\* insert not yet committed reads only committed rows, so it sees no record
\* of that slug (404) and never the staged row.
C12_ReadAfterWrite == [][C12_Step]_vars

\* a resolve found the record of an issuance that has committed and not yet returned
C12_Witness == \E p, q \in Procs : /\ pc[p] = "scan" /\ pc[q] = "respond"
                                   /\ local[p].slug = local[q].slug
                                   /\ local[p].final_url = local[q].url
                                   /\ local[p].final_url = "https://example.com?a=1&b=x+%26"

\* the step condition of C13
C13_Step ==
    /\ \A p \in Procs : (pc[p] = "save" /\ pc'[p] = "params") =>
           /\ files'[Filename(local[p].slug)] = QrMake(local[p].redirect_url)
           /\ \E b \in HostBases : local[p].redirect_url = b \o "r/" \o local[p].slug
           /\ files'[Filename(local[p].slug)] # QrMake(local[p].url)
    /\ \A p \in Procs : (pc[p] = "respond" /\ pc'[p] = "idle" /\ Len(issued') > Len(issued)) =>
           /\ sent'.status = 200
           /\ sent'.redirect_url = local[p].redirect_url
           /\ \E b \in HostBases : sent'.redirect_url = b \o "r/" \o local[p].row.slug
           /\ local[p].row \in qr_codes
           /\ sent'.redirect_url # local[p].row.url
           /\ \E b \in HostBases : files[Filename(local[p].row.slug)] = QrMake(b \o "r/" \o local[p].row.slug)
    /\ \A i \in 1..Len(issued') : /\ \E b \in HostBases : issued'[i].redirect_url = b \o "r/" \o issued'[i].slug
                                  /\ \E b \in HostBases : files'[Filename(issued'[i].slug)] = QrMake(b \o "r/" \o issued'[i].slug)
                                  /\ files'[Filename(issued'[i].slug)] # QrMake(issued'[i].url)
\* C13: a successful issuance encodes into its image, and returns as
\* redirect_url, the base URL of the request followed by r/<slug>, where
\* <slug> is the slug of the record the issuance committed; the image it
\* writes holds exactly the redirect URL it returns, and the image stored
\* for a returned slug always encodes a resolver URL of that slug with the
\* path r/<slug>, never the destination URL.
C13_ImageEncodesRedirectUrl == [][C13_Step]_vars

\* an issuance with parameters returned: its image holds the resolver URL, its record the encoded destination
C13_Witness == /\ Len(issued) = 1
               /\ issued[1].url = "https://example.com?a=1&b=x+%26"
               /\ issued[1].redirect_url = "http://alt.test/r/slug2"
               /\ files["slug2.png"] = QrMake("http://alt.test/r/slug2")
               /\ sent.status = 200 /\ sent.redirect_url = "http://alt.test/r/slug2"

\* the step condition of C14
C14_Step ==
    /\ Len(qr_scans') >= Len(qr_scans)
    /\ \A n \in 1..Len(qr_scans) : qr_scans'[n] = qr_scans[n]
    /\ \A n \in (Len(qr_scans) + 1)..Len(qr_scans') : \A m \in 1..Len(qr_scans) : qr_scans'[n].id > qr_scans[m].id
    /\ \A m, n \in 1..Len(qr_scans') : m < n => qr_scans'[m].id < qr_scans'[n].id
\* C14: the scan log is append-only and its ids follow insertion order: no
\* step changes or removes an event already in the log, every event a step
\* appends has an id greater than every id already there, and so the ids
\* increase strictly along the log.
C14_ScansAppendOnly == [][C14_Step]_vars

\* two scans from different addresses are in the log; the second, with the larger id, read the time first and waited for the write lock
C14_Witness == /\ Len(qr_scans) = 2
               /\ qr_scans[1].id < qr_scans[2].id
               /\ qr_scans[1].ip # qr_scans[2].ip
               /\ qr_scans[1].scanned_at = "2026-01-01T00:00:01"
               /\ qr_scans[2].scanned_at = "2026-01-01T00:00:00"

\* C15: no orphan scans: in every reachable state the slug of every event
\* in the scan log is the slug of a record in qr_codes, and so is the slug
\* of every resolve that has passed the lookup and is about to insert,
\* commit or redirect, since follow_qr returns 404 before its INSERT when
\* the SELECT finds no row, and records are never deleted.
C15_NoOrphanScans ==
    /\ \A n \in 1..Len(qr_scans) : \E r \in qr_codes : r.slug = qr_scans[n].slug
    /\ \A p \in Procs : pc[p] \in {"scan_params", "scan", "commit_scan", "redirect"} => \E r \in qr_codes : r.slug = local[p].slug
    /\ \A s \in SlugSpace : (~ \E r \in qr_codes : r.slug = s) => (ScanCount(s) = 0 /\ lost[s] = 0 /\ YieldCount(s) = 0)

\* a slug with a record was scanned, and a resolve of a slug without a record got its 404 and left no scan
C15_Witness == /\ Len(qr_scans) >= 1
               /\ sent = HttpError("resolve", sent.slug, 404, "Unknown QR code")
               /\ sent.slug \in SlugSpace
               /\ ScanCount(sent.slug) = 0
               /\ ~ \E r \in qr_codes : r.slug = sent.slug

\* how far an issue handler has got
IssueRank(at) == CASE at = "body" -> 1 [] at = "save" -> 2 [] at = "params" -> 3 [] at = "insert" -> 4 [] at = "commit" -> 5 [] at = "respond" -> 6 [] OTHER -> 0

\* the step condition of C16
C16_Step ==
    /\ \A p \in Procs : (local[p].op = "issue" /\ (pc'[p] # pc[p] \/ local'[p] # local[p])) =>
           \/ pc'[p] = "idle"
           \/ /\ IssueRank(pc'[p]) = IssueRank(pc[p]) + 1
              /\ pc[p] # "body" => local'[p].slug = local[p].slug
    /\ \A p \in Procs : (local[p].op = "issue" /\ pc'[p] = "idle") =>
           \/ pc[p] = "respond" /\ local[p].row \in qr_codes'
           \/ /\ pc[p] # "respond"
              /\ qr_codes' = qr_codes
              /\ issued' = issued
              /\ sent' = sent \/ (sent'.op = "issue" /\ sent'.status = 500)
    /\ \A r \in qr_codes' \ qr_codes : ~ \E r0 \in qr_codes : r0.slug = r.slug
\* C16: every issue call terminates after a bounded number of insert
\* attempts: each step of an issue handler moves it one statement forward
\* with its slug unchanged or ends it, so it runs at most one INSERT and
\* never goes back to generate or insert again; it ends either with its
\* record committed or with a failure that leaves the records as they
\* were; no commit adds a record whose slug already had one; and, as long
\* as the server keeps executing the handler, every issue call that has
\* started does end.
C16_IssueTerminates ==
    /\ [][C16_Step]_vars
    /\ \A p \in Procs : (pc[p] \in {"body", "save", "params", "insert", "commit", "respond"}) ~> (pc[p] = "idle")

\* one issuance has returned with its record and a later one with the same slug has ended in the duplicate failure
C16_Witness == /\ \A p \in Procs : pc[p] = "idle"
               /\ Len(issued) = 1
               /\ sent = IntegrityError(issued[1].slug)
               /\ Cardinality(qr_codes) = 1

\* payloads with the destination URL lines 113-116 build for them
UrlVectors == {
    [payload |-> [base_url |-> "https://example.com", params |-> << >>],
     url |-> "https://example.com"],
    [payload |-> [base_url |-> "https://example.com", params |-> << << <<"a">>, <<"1">> >>, << <<"b">>, <<"x", " ", "&">> >> >>],
     url |-> "https://example.com?a=1&b=x+%26"],
    [payload |-> [base_url |-> "https://example.com", params |-> << << <<"a">>, <<"1">> >> >>],
     url |-> "https://example.com?a=1"],
    [payload |-> [base_url |-> "https://example.com", params |-> << << <<"a", " ", "b">>, <<"1", "=", "1">> >> >>],
     url |-> "https://example.com?a+b=1%3D1"],
    [payload |-> [base_url |-> "https://example.com/x?b=1", params |-> << << <<"x">>, <<"?", "/", "%">> >> >>],
     url |-> "https://example.com/x?b=1?x=%3F%2F%25"],
    [payload |-> [base_url |-> "https://example.com", params |-> << << <<"~", "_", ".", "-">>, << >> >> >>],
     url |-> "https://example.com?~_.-="] }

\* C17: the destination URL an issuance stores is the template unchanged
\* when params is empty, and otherwise the template, a '?', and the
\* name=value pairs of params, each once, in order, form-encoded and joined
\* by '&': BuildUrl gives exactly that for every listed payload, and the
\* url of every record, staged row and running issuance is the one built
\* from a payload that was posted.
C17_DestinationUrl ==
    /\ \A v \in UrlVectors : BuildUrl(v.payload) = v.url
    /\ \A v \in UrlVectors : v.payload.params = << >> => v.url = v.payload.base_url
    /\ Payloads \subseteq {v.payload : v \in UrlVectors}
    /\ \A r \in qr_codes : \E v \in UrlVectors : v.payload \in Payloads /\ r.url = v.url
    /\ \A p \in Procs : (local[p].op = "issue" /\ pc[p] # "body") =>
           /\ \E v \in UrlVectors : v.payload \in Payloads /\ local[p].url = v.url
           /\ pc[p] \in {"commit", "respond"} => local[p].row.url = local[p].url
    /\ \A i \in 1..Len(issued) : \E r \in qr_codes : r.slug = issued[i].slug /\ r.url = issued[i].url

\* one record was stored for a payload without params and one for a payload with two params
C17_Witness == /\ \E r \in qr_codes : r.url = "https://example.com"
               /\ \E r \in qr_codes : r.url = "https://example.com?a=1&b=x+%26"
               /\ Len(issued) = 2
               /\ issued[1].url # issued[2].url

\* C18: every LinkRecord has its image: in every reachable state the file
\* <slug>.png exists in QR_DIR for each record, staged row and committed
\* issuance, the record's file_path is QR_DIR/<slug>.png, and the
\* qr_code_url of every returned issuance is /static/<slug>.png, the link
\* under which that file is served.
C18_RecordHasImage ==
    /\ \A r \in qr_codes : /\ Filename(r.slug) \in FileNames
                           /\ files[Filename(r.slug)] # NoFile
                           /\ r.file_path = QR_DIR \o "/" \o r.slug \o ".png"
    /\ \A p \in Procs : pc[p] \in {"params", "insert", "commit", "respond"} =>
           /\ files[local[p].filename] # NoFile
           /\ local[p].filename = local[p].slug \o ".png"
    /\ \A i \in 1..Len(issued) : /\ issued[i].qr_code_url = "/static/" \o issued[i].slug \o ".png"
                                 /\ files[Filename(issued[i].slug)] # NoFile
                                 /\ \E r \in qr_codes : r.slug = issued[i].slug /\ r.file_path = Filepath(Filename(issued[i].slug))

\* both slugs have a record and an image, one issuance has returned and the other has committed
C18_Witness == /\ Cardinality(qr_codes) = 2
               /\ \A f \in FileNames : files[f] # NoFile
               /\ Len(issued) = 1
               /\ \E p \in Procs : pc[p] = "respond"

\* the step condition of C19
C19_Step ==
    /\ \A p \in Procs : ((local[p].op = "resolve" \/ local'[p].op = "resolve") /\ (pc'[p] # pc[p] \/ local'[p] # local[p])) =>
           /\ qr_codes' = qr_codes
           /\ files' = files
           /\ issued' = issued
    /\ \A p \in Procs : ((local[p].op = "issue" \/ local'[p].op = "issue") /\ (pc'[p] # pc[p] \/ local'[p] # local[p])) =>
           /\ qr_scans' = qr_scans
           /\ sqlite_sequence' = sqlite_sequence
           /\ yielded' = yielded
    /\ (RequestReceived /\ \A p \in Procs : pc'[p] = pc[p]) =>
           /\ qr_codes' = qr_codes
           /\ files' = files
           /\ qr_scans' = qr_scans
           /\ sqlite_sequence' = sqlite_sequence
    /\ qr_scans' # qr_scans => \E p \in Procs : local[p].op = "resolve" /\ pc[p] = "commit_scan"
    /\ (qr_codes' # qr_codes \/ files' # files) => \E p \in Procs : local[p].op = "issue" /\ pc[p] \in {"save", "commit"}
\* C19: frame conditions: no step of a resolve, whether it ends in a
\* redirect, a 404 or a failure, changes the records or the image files,
\* and no step of an issue, whether it returns, is rejected or fails,
\* changes the scan log or its id sequence; the scan log changes only in
\* the commit of a resolve, the records and images only in steps of an
\* issue.
C19_Frame == [][C19_Step]_vars

\* a resolve was redirected and an issue of the same slug failed afterwards: still one record, one image, one scan
C19_Witness == /\ Len(yielded) = 1
               /\ Len(qr_scans) = 1
               /\ Cardinality(qr_codes) = 1
               /\ Cardinality({f \in FileNames : files[f] # NoFile}) = 1
               /\ sent = IntegrityError(yielded[1].slug)

\* the step condition of C20
C20_Step ==
    /\ \A p \in Procs : (pc[p] = "idle" /\ pc'[p] = "body") =>
           /\ local'[p].token \in GeneratedTokens
           /\ fake_tokens_db[local'[p].token] \in DOMAIN fake_users_db
    /\ (RequestReceived /\ sent'.op = "issue" /\ \A p \in Procs : pc'[p] = pc[p]) =>
           /\ sent' = HttpError("issue", "", 401, "Invalid authentication credentials")
           /\ local' = local
           /\ files' = files
           /\ qr_codes' = qr_codes
           /\ \E t \in TokenSpace : fake_tokens_db[t] = NoUser
    /\ \A r \in qr_codes' \ qr_codes : \E p \in Procs :
           /\ pc[p] = "commit" /\ local[p].row = r
           /\ fake_tokens_db[local[p].token] \in DOMAIN fake_users_db
    /\ \A t \in TokenSpace : (fake_tokens_db[t] = NoUser /\ fake_tokens_db'[t] # NoUser) =>
           /\ sent' = [NoResp EXCEPT !.op = "login", !.status = 200, !.detail = t]
           /\ fake_tokens_db'[t] \in DOMAIN fake_users_db
    /\ \A t \in TokenSpace : (fake_tokens_db[t] # NoUser /\ fake_tokens_db'[t] # fake_tokens_db[t]) =>
           /\ \A u \in TokenSpace : fake_tokens_db'[u] = NoUser
           /\ \A p \in Procs : pc'[p] = "idle"
    /\ \A p \in Procs : (pc[p] = "idle" /\ pc'[p] = "scan_params") => local'[p].token = ""
\* C20: a LinkRecord is only created by a request whose token was returned
\* by an earlier successful login: a token enters fake_tokens_db only in
\* the step that returns it from a login with valid credentials and leaves
\* it only when the process dies, with every handler and every token, an issue
\* is let in only with such a token and a record is only committed by such
\* an issue, while an issue with any other token is answered 401 "Invalid
\* authentication credentials" in a step that generates no slug, writes no
\* image and inserts no record; a resolve carries no token.
C20_IssueNeedsLoginToken == [][C20_Step]_vars

\* after a login a record was created and scanned, and an issue with a token no login returned was rejected
C20_Witness == /\ sent = HttpError("issue", "", 401, "Invalid authentication credentials")
               /\ fake_tokens_db["tokA"] = "user@example.com"
               /\ fake_tokens_db["forged"] = NoUser
               /\ Cardinality(qr_codes) = 1
               /\ Len(yielded) = 1
               /\ \A p \in Procs : pc[p] = "idle"
====
